---- MODULE Spec2Model ----
(***************************************************************************)
(* Model of kdp_formatter.processors.text_processor.TextProcessor: the     *)
(* read_content / format_content / generate_toc / save pipeline, the       *)
(* class-token normalisation, the table-of-contents extraction and the     *)
(* chapter split of _save_epub.                                            *)
(*                                                                         *)
(* An HTML string is modelled by what the html.parser of BeautifulSoup     *)
(* makes of it: whether it has a <body> element, and the sequence of the   *)
(* nodes at its top level (the children of <body> when there is one).  A   *)
(* node is an element (name, class tokens, id, text, children) or a text   *)
(* node (NavigableString, whose .name is None).                            *)
(***************************************************************************)
EXTENDS Integers, Sequences, FiniteSets, TLC

\* ------------------------------------------------------------------ bounds
MaxLen     == 3   \* top-level nodes of an input document
MaxTocLen  == 2   \* top-level nodes of an input document of SpecToc, SpecFormat
MaxKids    == 1   \* children of a nested <div>
MaxFormats == 2   \* format_content calls on one content
MaxTocCalls == 2  \* generate_toc calls in a row on one content
MaxBlocks  == 3   \* blocks of text of a PDF input

\* ------------------------------------------------------------------ state
VARIABLES
    input,          \* the file at self.input_path: its format and what reading
                    \* it gives
    output_format,  \* self.output_format
    content,        \* self.content
    toc,            \* the list the last call returned (generate_toc), or <<>>
    book,           \* the book the last call wrote (save to epub), or NoBook
    last,           \* the method called last
    err,            \* "ok", or the exception the last call raised
    cause,          \* "ok", or the exception first raised inside the last call
    formats,        \* format_content calls completed on the current content
    tocCalls,       \* generate_toc calls completed in a row, up to the last call
    oob             \* heading (1-based, document order) given an id out of band
                    \* since the content was read, 0 when none

vars ==
    <<input, output_format, content, toc, book, last, err, cause, formats, tocCalls, oob>>

\* ------------------------------------------------------------------- nodes
NoId   == "<absent>"      \* heading.get('id') is None: no id attribute
NoName == "#text"         \* element.name of a NavigableString (None)

HeadingNames == <<"h1", "h2", "h3", "h4", "h5", "h6">>
ListNames    == {"ul", "ol"}

\* mutant: only an h1 opens a chapter
ChapterNamesTopOnly == {"h1"}

\* `element.name in ['h1', 'h2']`
ChapterNames == {"h1", "h2"}

IsHeading(n) == \E i \in 1..6 : n.name = HeadingNames[i]

\* int(heading.name[1])
Level(n) == CHOOSE i \in 1..6 : n.name = HeadingNames[i]

Node(name, cls, id, text, kids) ==
    [name |-> name, cls |-> cls, id |-> id, text |-> text, kids |-> kids]

Elem(name, id, text) == Node(name, <<>>, id, text, <<>>)
TextNode(text)       == Node(NoName, <<>>, NoId, text, <<>>)
Div(kids)            == Node("div", <<>>, NoId, "", kids)

\* sequences over S of length 0..n
SeqsUpTo(S, n) == UNION {[1..k -> S] : k \in 0..n}

\* ---------------------------------------------------------------- content
\* self.content: None after __init__, afterwards an HTML string.
None == [kind |-> "None"]

Html(body, nodes) == [kind |-> "str", body |-> body, nodes |-> nodes]

\* the empty string ''
EmptyStr == Html(FALSE, <<>>)

\* `not self.content`: None or the empty string
Falsy(c) == c = None \/ c = EmptyStr

\* BeautifulSoup(markup, 'html.parser'): the tree of the string.  Class
\* attributes are whitespace-separated in the string and a token list in
\* the tree; tokens hold no whitespace, so both are the token sequence.
Parse(c) == [body |-> c.body, nodes |-> c.nodes]

\* str(soup)
Str(soup) == Html(soup.body, soup.nodes)

\* document order of find_all: a node, then its children
RECURSIVE Flat(_)
Flat(nodes) ==
    IF nodes = <<>> THEN <<>>
    ELSE <<Head(nodes)>> \o Head(nodes).kids \o Flat(Tail(nodes))

\* soup.find_all(['h1', ..., 'h6'])
Headings(nodes) == SelectSeq(Flat(nodes), IsHeading)

\* --------------------------------------------------------- format_content
\* mutant: the class attribute is set to the new token alone
AddClassReplacing(n, token) == [n EXCEPT !.cls = <<token>>]

\* tag['class'] = tag.get('class', []) + [token]
AddClass(n, token) == [n EXCEPT !.cls = Append(n.cls, token)]

HeadingToken(i) == "kdp-h" \o ToString(i)

\* the body of the loops of _format_headings, for one element
FormatHeading(n) == IF IsHeading(n) THEN AddClass(n, HeadingToken(Level(n))) ELSE n

\* find_all visits all descendants: the elements and their children
_format_headings(soup) ==
    [soup EXCEPT !.nodes =
        [i \in 1..Len(soup.nodes) |->
            LET n == FormatHeading(soup.nodes[i])
            IN  [n EXCEPT !.kids = [j \in 1..Len(n.kids) |-> FormatHeading(n.kids[j])]]]]

FormatParagraph(n) == IF n.name = "p" THEN AddClass(n, "kdp-paragraph") ELSE n

_format_paragraphs(soup) ==
    [soup EXCEPT !.nodes =
        [i \in 1..Len(soup.nodes) |->
            LET n == FormatParagraph(soup.nodes[i])
            IN  [n EXCEPT !.kids = [j \in 1..Len(n.kids) |-> FormatParagraph(n.kids[j])]]]]

FormatList(n) == IF n.name \in ListNames THEN AddClass(n, "kdp-list") ELSE n

_format_lists(soup) ==
    [soup EXCEPT !.nodes =
        [i \in 1..Len(soup.nodes) |->
            LET n == FormatList(soup.nodes[i])
            IN  [n EXCEPT !.kids = [j \in 1..Len(n.kids) |-> FormatList(n.kids[j])]]]]

\* mutant: a parser that puts the tree into <html><body> (lxml)
FormattedInBody(c) ==
    Html(TRUE, _format_lists(_format_paragraphs(_format_headings(Parse(c)))).nodes)

\* the body of format_content once self.content is set
Formatted(c) == Str(_format_lists(_format_paragraphs(_format_headings(Parse(c)))))

\* ----------------------------------------------------------- generate_toc
GeneratedId(n) == "heading_" \o ToString(n)

\* mutant: the list is kept from the previous call instead of starting empty
TocStartStale == toc

\* toc = []
TocStart == <<>>

\* mutant: generated ids numbered from 1
AnchorIdOneBased(heading, entries) ==
    IF heading.id = NoId THEN GeneratedId(Len(entries) + 1) ELSE heading.id

\* heading.get('id', f'heading_{len(toc)}')
AnchorId(heading, entries) ==
    IF heading.id = NoId THEN GeneratedId(Len(entries)) ELSE heading.id

TocEntry(heading, entries) ==
    [title |-> heading.text, level |-> Level(heading), id |-> AnchorId(heading, entries)]

\* if not heading.get('id'): heading['id'] = toc[-1]['id']
WithId(heading, entry) ==
    IF heading.id = NoId \/ heading.id = "" THEN [heading EXCEPT !.id = entry.id]
    ELSE heading

\* the loop over find_all([...]) for a sequence of leaves; gives the TOC and
\* the leaves as the loop leaves them in the soup
RECURSIVE TocLeaves(_, _)
TocLeaves(leaves, entries) ==
    IF leaves = <<>> THEN [toc |-> entries, nodes |-> <<>>]
    ELSE LET h    == Head(leaves)
             e    == TocEntry(h, entries)
             toc1 == IF IsHeading(h) THEN Append(entries, e) ELSE entries
             h1   == IF IsHeading(h) THEN WithId(h, e) ELSE h
             rest == TocLeaves(Tail(leaves), toc1)
         IN  [toc |-> rest.toc, nodes |-> <<h1>> \o rest.nodes]

\* mutant: find_all(..., recursive=False), nested headings are not visited
RECURSIVE TocTreeTopLevel(_, _)
TocTreeTopLevel(nodes, entries) ==
    IF nodes = <<>> THEN [toc |-> entries, nodes |-> <<>>]
    ELSE LET h    == Head(nodes)
             e    == TocEntry(h, entries)
             toc1 == IF IsHeading(h) THEN Append(entries, e) ELSE entries
             h1   == IF IsHeading(h) THEN WithId(h, e) ELSE h
             rest == TocTreeTopLevel(Tail(nodes), toc1)
         IN  [toc |-> rest.toc, nodes |-> <<h1>> \o rest.nodes]

\* the same loop over a tree: a node is visited before its children
RECURSIVE TocTree(_, _)
TocTree(nodes, entries) ==
    IF nodes = <<>> THEN [toc |-> entries, nodes |-> <<>>]
    ELSE LET h    == Head(nodes)
             e    == TocEntry(h, entries)
             toc1 == IF IsHeading(h) THEN Append(entries, e) ELSE entries
             h1   == IF IsHeading(h) THEN WithId(h, e) ELSE h
             kids == TocLeaves(h.kids, toc1)
             rest == TocTree(Tail(nodes), kids.toc)
         IN  [toc |-> rest.toc,
              nodes |-> <<[h1 EXCEPT !.kids = kids.nodes]>> \o rest.nodes]

\* mutant: a generated id counts only the headings before it that have no id
TocOfIdlessCount(c) ==
    LET hs == Headings(Parse(c).nodes)
        idless(i) == Cardinality({j \in 1..(i - 1) : hs[j].id = NoId})
    IN  [toc  |-> [i \in 1..Len(hs) |->
                     [title |-> hs[i].text, level |-> Level(hs[i]),
                      id |-> IF hs[i].id = NoId THEN GeneratedId(idless(i))
                             ELSE hs[i].id]],
         soup |-> Parse(c)]

\* the body of generate_toc once self.content is set: the returned list and
\* the soup with the ids the loop has set
TocOf(c) ==
    LET soup == Parse(c)
        r    == TocTree(soup.nodes, TocStart)
    IN  [toc |-> r.toc, soup |-> [soup EXCEPT !.nodes = r.nodes]]

\* generate_toc works on a local soup and never stores it back: self.content
\* after the call is the string it parsed
ContentAfterToc(c, soup) == c

\* ------------------------------------------------------------- _save_epub
ChapterTitle(n) == "Chapter " \o ToString(n)
ChapterFile(n)  == "chapter_" \o ToString(n) \o ".xhtml"

\* epub.EpubHtml(title=..., file_name=..., content=''.join(str(tag) ...))
MakeChapter(current_chapter, chapter_count) ==
    [title     |-> IF current_chapter[1].name \in ChapterNames
                   THEN current_chapter[1].text
                   ELSE ChapterTitle(chapter_count),
     file_name |-> ChapterFile(chapter_count),
     content   |-> Html(FALSE, current_chapter)]

SplitStart == [chapters |-> <<>>, current_chapter |-> <<>>, chapter_count |-> 0]

\* mutant: chapter_count is not advanced when a chapter is made
FlushUncounted(st) ==
    IF st.current_chapter # <<>>
    THEN [st EXCEPT !.chapters = Append(st.chapters,
                        MakeChapter(st.current_chapter, st.chapter_count + 1))]
    ELSE st

\* `if current_chapter:` ... chapters.append(chapter)
Flush(st) ==
    IF st.current_chapter # <<>>
    THEN [st EXCEPT !.chapter_count = st.chapter_count + 1,
                    !.chapters = Append(st.chapters,
                        MakeChapter(st.current_chapter, st.chapter_count + 1))]
    ELSE st

\* mutant: the heading that opens a chapter is not put into it
SplitStepDropsHeading(st, element) ==
    IF element.name \in ChapterNames
    THEN [Flush(st) EXCEPT !.current_chapter = <<>>]
    ELSE IF element.name # NoName
    THEN [st EXCEPT !.current_chapter = Append(st.current_chapter, element)]
    ELSE st

\* one iteration of `for element in soup.body.children`
SplitStep(st, element) ==
    IF element.name \in ChapterNames
    THEN [Flush(st) EXCEPT !.current_chapter = <<element>>]
    ELSE IF element.name # NoName
    THEN [st EXCEPT !.current_chapter = Append(st.current_chapter, element)]
    ELSE st

RECURSIVE SplitLoop(_, _)
SplitLoop(st, children) ==
    IF children = <<>> THEN st
    ELSE SplitLoop(SplitStep(st, Head(children)), Tail(children))

\* the points of the walk: the state of the loop before its first
\* iteration (k = 0) and after its k-th
SplitWalk(children) ==
    [k \in 0..Len(children) |-> SplitLoop(SplitStart, SubSeq(children, 1, k))]

\* the chapters of the loop and of the final flush
SplitChapters(children) == Flush(SplitLoop(SplitStart, children)).chapters

\* `if not chapters:` one chapter holding self.content
Placeholder(c) == [title |-> "Content", file_name |-> ChapterFile(1), content |-> c]

NavItem == "nav"

\* mutant: the chapters are put in the spine last to first
SpineReversed(chapters) ==
    <<NavItem>> \o [i \in 1..Len(chapters) |-> chapters[Len(chapters) + 1 - i].file_name]

\* book.spine = ['nav'] + chapters (a chapter is named by its file)
Spine(chapters) == <<NavItem>> \o [i \in 1..Len(chapters) |-> chapters[i].file_name]

NoBook == [chapters |-> <<>>, spine |-> <<>>]

\* mutant: no chapter is made when the split gives none
BookOfNoPlaceholder(c) ==
    LET chapters == SplitChapters(Parse(c).nodes)
    IN  [chapters |-> chapters, spine |-> Spine(chapters)]

\* the book _save_epub assembles from a string that has a <body>
BookOf(c) ==
    LET split    == SplitChapters(Parse(c).nodes)
        chapters == IF split = <<>> THEN <<Placeholder(c)>> ELSE split
    IN  [chapters |-> chapters, spine |-> Spine(chapters)]

\* -------------------------------------------------------------- _read_pdf
\* A block of extracted text (one piece of text.split('\n\n')) is a sequence
\* of characters: blanks, '#', upper-case and lower-case letters, and LongRun
\* for a run of 100 upper-case letters.  The blocks hold no '<' or '&': they
\* go into the HTML string as they are.
Blank   == " "
Marker  == "#"
LongRun == "X*100"

UpperChars == {"A", "B", LongRun}
LowerChars == {"a", "b"}

CharLen(ch) == IF ch = LongRun THEN 100 ELSE 1

\* len(para)
RECURSIVE StrLen(_)
StrLen(para) == IF para = <<>> THEN 0 ELSE CharLen(Head(para)) + StrLen(Tail(para))

\* para.isupper(): a cased character, and no lower-case one
IsUpper(para) ==
    /\ \E i \in 1..Len(para) : para[i] \in UpperChars
    /\ \A i \in 1..Len(para) : para[i] \notin LowerChars

\* para.startswith('#')
StartsWithMarker(para) == para # <<>> /\ para[1] = Marker

\* para.strip(chars), chars one character: from both ends
RECURSIVE StripChar(_, _)
StripChar(para, ch) ==
    IF para # <<>> /\ para[1] = ch THEN StripChar(Tail(para), ch)
    ELSE IF para # <<>> /\ para[Len(para)] = ch
    THEN StripChar(SubSeq(para, 1, Len(para) - 1), ch)
    ELSE para

\* para.strip()
Strip(para) == StripChar(para, Blank)

\* the characters as the text of a node
RECURSIVE Text(_)
Text(para) == IF para = <<>> THEN "" ELSE Head(para) \o Text(Tail(para))

\* len(para.strip()) > 0
NonEmpty(para) == StrLen(Strip(para)) > 0

HeadingThreshold == 100

\* mutant: a block of exactly 100 characters is still a heading
IsBoundaryAtMost(para) ==
    (StrLen(para) <= HeadingThreshold /\ IsUpper(para)) \/ StartsWithMarker(para)

\* (len(para) < 100 and para.isupper()) or para.startswith('#')
IsBoundary(para) ==
    (StrLen(para) < HeadingThreshold /\ IsUpper(para)) \/ StartsWithMarker(para)

\* f'<h1>{para.strip("#").strip()}</h1>'
BoundaryHeading(para) == Elem("h1", NoId, Text(Strip(StripChar(para, Marker))))

\* f'<p>{para.strip()}</p>'
Paragraph(para) == Elem("p", NoId, Text(Strip(para)))

\* f'<h1>Chapter {chapter_count}</h1>'
NumberedHeading(chapter_count) == Elem("h1", NoId, ChapterTitle(chapter_count))

\* html_parts (after '<html><body>'), current_chapter = [], chapter_count = 1
ReadStart == [html_parts |-> <<>>, current_chapter |-> <<>>, chapter_count |-> 1]

\* mutant: chapter_count is not advanced when the open paragraphs are emitted
EmitUncounted(st) ==
    IF st.current_chapter # <<>>
    THEN [html_parts      |-> st.html_parts
                                \o <<NumberedHeading(st.chapter_count)>>
                                \o st.current_chapter,
          current_chapter |-> <<>>,
          chapter_count   |-> st.chapter_count]
    ELSE st

\* `if current_chapter:` the numbered heading and the open paragraphs
Emit(st) ==
    IF st.current_chapter # <<>>
    THEN [html_parts      |-> st.html_parts
                                \o <<NumberedHeading(st.chapter_count)>>
                                \o st.current_chapter,
          current_chapter |-> <<>>,
          chapter_count   |-> st.chapter_count + 1]
    ELSE st

\* one iteration of `for para in paragraphs`
ReadStep(st, para) ==
    IF ~NonEmpty(para) THEN st
    ELSE IF IsBoundary(para)
    THEN [Emit(st) EXCEPT !.html_parts = Append(@, BoundaryHeading(para))]
    ELSE [st EXCEPT !.current_chapter = Append(@, Paragraph(para))]

RECURSIVE ReadPage(_, _)
ReadPage(st, paragraphs) ==
    IF paragraphs = <<>> THEN st
    ELSE ReadPage(ReadStep(st, Head(paragraphs)), Tail(paragraphs))

\* mutant: the open paragraphs are emitted at the end of every page
RECURSIVE ReadPagesFlushing(_, _)
ReadPagesFlushing(st, pages) ==
    IF pages = <<>> THEN st
    ELSE ReadPagesFlushing(Emit(ReadPage(st, Head(pages))), Tail(pages))

\* `for i, page in enumerate(reader.pages)`: the state is kept across pages
RECURSIVE ReadPages(_, _)
ReadPages(st, pages) ==
    IF pages = <<>> THEN st
    ELSE ReadPages(ReadPage(st, Head(pages)), Tail(pages))

NewLine == TextNode("\n")

\* '\n'.join(html_parts): a line break after '<html><body>' and after each
\* part, all of them text nodes of <body>
RECURSIVE JoinLines(_)
JoinLines(parts) ==
    IF parts = <<>> THEN <<>>
    ELSE <<Head(parts), NewLine>> \o JoinLines(Tail(parts))

\* the string _read_pdf stores in self.content
_read_pdf(pages) ==
    Html(TRUE, <<NewLine>> \o JoinLines(Emit(ReadPages(ReadStart, pages)).html_parts))

\* ---------------------------------------------------------------- methods
Formats == {"epub", "mobi"}

\* what pypandoc raises: RuntimeError (pandoc failed), OSError (no pandoc)
PandocErrors == {"RuntimeError", "OSError"}

\* an input file pypandoc converts to html
GoodInput(html) ==
    [ok |-> TRUE, fmt |-> "html", html |-> html, pages |-> <<>>, meta |-> TRUE,
     raises |-> "ok"]

\* a PDF file: the blocks of its pages, and whether it has document
\* information (reader.metadata is None without)
PdfInput(pages, meta) ==
    [ok |-> TRUE, fmt |-> "pdf", html |-> EmptyStr, pages |-> pages, meta |-> meta,
     raises |-> "ok"]

\* an input file whose reader raises
BadInput(fmt, exception) ==
    [ok |-> FALSE, fmt |-> fmt, html |-> EmptyStr, pages |-> <<>>, meta |-> TRUE,
     raises |-> exception]

Inputs(shapes, n) ==
    {GoodInput(Html(b, ns)) : b \in BOOLEAN, ns \in SeqsUpTo(shapes, n)}
        \cup {BadInput("html", e) : e \in PandocErrors}

\* __init__
InitWith(inputs) ==
    /\ input \in inputs
    /\ output_format \in Formats
    /\ content = None
    /\ toc = <<>>
    /\ book = NoBook
    /\ last = "__init__"
    /\ err = "ok"
    /\ cause = "ok"
    /\ formats = 0
    /\ tocCalls = 0
    /\ oob = 0

\* the string read_content stores for a readable file
ReadResult == IF input.fmt = "pdf" THEN _read_pdf(input.pages) ELSE input.html

\* the exception raised inside read_content, "ok" when none: the reader's,
\* or AttributeError of reader.metadata.get when the PDF has no metadata
ReadCause ==
    IF ~input.ok THEN input.raises
    ELSE IF input.fmt = "pdf" /\ ~input.meta THEN "AttributeError"
    ELSE "ok"

\* the exception read_content raises: `except Exception as e: raise
\* RuntimeError(...)` around the pypandoc call, the others as they are
ReadError == IF input.fmt = "html" /\ ~input.ok THEN "RuntimeError" ELSE ReadCause

\* self.content after read_content: _read_pdf stores the string before it
\* reads the metadata
ContentAfterRead == IF input.ok THEN ReadResult ELSE content

\* `if not self.content: self.read_content()` at the head of a stage
NeedsRead == Falsy(content)
ReadFails == NeedsRead /\ ReadError # "ok"
Loaded    == IF NeedsRead THEN ContentAfterRead ELSE content

\* the processor process_text makes is local to it
Callable == last # "process_text"

Raise(method, exception, inner) ==
    /\ last' = method
    /\ err' = exception
    /\ cause' = inner
    /\ toc' = <<>>
    /\ book' = NoBook
    /\ tocCalls' = 0
    /\ UNCHANGED <<input, output_format, content, formats, oob>>

\* read_content has raised, from a direct call or from the head of a stage
RaiseInRead(method) ==
    /\ last' = method
    /\ err' = ReadError
    /\ cause' = ReadCause
    /\ content' = ContentAfterRead
    /\ formats' = IF input.ok THEN 0 ELSE formats
    /\ oob' = IF input.ok THEN 0 ELSE oob
    /\ toc' = <<>>
    /\ book' = NoBook
    /\ tocCalls' = 0
    /\ UNCHANGED <<input, output_format>>

read_content ==
    /\ Callable
    /\ IF ReadError = "ok"
       THEN /\ content' = ReadResult
            /\ formats' = 0
            /\ tocCalls' = 0
            /\ last' = "read_content"
            /\ err' = "ok"
            /\ cause' = "ok"
            /\ oob' = 0
            /\ toc' = <<>>
            /\ book' = NoBook
            /\ UNCHANGED <<input, output_format>>
       ELSE RaiseInRead("read_content")

format_content ==
    /\ Callable
    /\ formats < MaxFormats \/ NeedsRead
    /\ IF ReadFails THEN RaiseInRead("format_content")
       ELSE /\ content' = Formatted(Loaded)
            /\ formats' = (IF NeedsRead THEN 0 ELSE formats) + 1
            /\ tocCalls' = 0
            /\ last' = "format_content"
            /\ err' = "ok"
            /\ cause' = "ok"
            /\ oob' = IF NeedsRead THEN 0 ELSE oob
            /\ toc' = <<>>
            /\ book' = NoBook
            /\ UNCHANGED <<input, output_format>>

generate_toc ==
    /\ Callable
    /\ tocCalls < MaxTocCalls \/ NeedsRead
    /\ IF ReadFails THEN RaiseInRead("generate_toc")
       ELSE LET r == TocOf(Loaded)
            IN  /\ toc' = r.toc
                /\ content' = ContentAfterToc(Loaded, r.soup)
                /\ formats' = IF NeedsRead THEN 0 ELSE formats
                /\ tocCalls' = (IF NeedsRead THEN 0 ELSE tocCalls) + 1
                /\ last' = "generate_toc"
                /\ err' = "ok"
                /\ cause' = "ok"
                /\ oob' = IF NeedsRead THEN 0 ELSE oob
                /\ book' = NoBook
                /\ UNCHANGED <<input, output_format>>

\* what _save_epub raises for a content, "ok" when it writes the book:
\* BeautifulSoup(None) raises TypeError and soup.body is None for a string
\* without <body>, so soup.body.children raises AttributeError
EpubError(c) ==
    IF c = None THEN "TypeError"
    ELSE IF ~Parse(c).body THEN "AttributeError"
    ELSE "ok"

_save_epub ==
    IF EpubError(content) # "ok"
    THEN Raise("save", EpubError(content), EpubError(content))
    ELSE /\ book' = BookOf(content)
         /\ last' = "save"
         /\ err' = "ok"
         /\ cause' = "ok"
         /\ toc' = <<>>
         /\ tocCalls' = 0
         /\ UNCHANGED <<input, output_format, content, formats, oob>>

\* pypandoc.convert_text(...) succeeds or raises (a TypeError for None);
\* save wraps what it raises in a RuntimeError
save_pandoc ==
    \E outcome \in PandocErrors \cup {"ok"} :
        IF content = None THEN Raise("save", "RuntimeError", "TypeError")
        ELSE IF outcome # "ok" THEN Raise("save", "RuntimeError", outcome)
        ELSE /\ last' = "save"
             /\ err' = "ok"
             /\ cause' = "ok"
             /\ toc' = <<>>
             /\ book' = NoBook
             /\ tocCalls' = 0
             /\ UNCHANGED <<input, output_format, content, formats, oob>>

save ==
    /\ Callable
    /\ IF output_format = "epub" THEN _save_epub ELSE save_pandoc

\* cli.main.process_text: a processor of its own, the four calls in order,
\* and `except Exception as e: print(...); sys.exit(1)` around them.  The
\* stages find self.content set (an empty string is read again, and is the
\* same string), so each works on the result of the one before.
process_text ==
    /\ last = "__init__"
    /\ last' = "process_text"
    /\ toc' = <<>>
    /\ tocCalls' = 0
    /\ oob' = 0
    /\ UNCHANGED <<input, output_format>>
    /\ IF ReadError # "ok"
       THEN /\ err' = "SystemExit"
            /\ cause' = ReadCause
            /\ content' = ContentAfterRead
            /\ formats' = 0
            /\ book' = NoBook
       ELSE LET formatted == Formatted(ReadResult)
            IN  /\ content' = formatted
                /\ formats' = 1
                /\ IF output_format = "epub"
                   THEN IF EpubError(formatted) # "ok"
                        THEN /\ err' = "SystemExit"
                             /\ cause' = EpubError(formatted)
                             /\ book' = NoBook
                        ELSE /\ err' = "ok"
                             /\ cause' = "ok"
                             /\ book' = BookOf(formatted)
                   ELSE \E outcome \in PandocErrors \cup {"ok"} :
                            /\ err' = IF outcome = "ok" THEN "ok" ELSE "SystemExit"
                            /\ cause' = outcome
                            /\ book' = NoBook

\* self.content is a public attribute: after a generate_toc the caller edits
\* the string and gives an id to one heading that has none (once for each
\* content read)
OutOfBandIds == {"intro"}

\* position in document order, among all headings, of node i (j = 0) or of
\* its j-th child
HeadingPos(nodes, i, j) ==
    Len(Headings(SubSeq(nodes, 1, i - 1)))
        + (IF j = 0 THEN 1
           ELSE (IF IsHeading(nodes[i]) THEN 1 ELSE 0)
                + Len(SelectSeq(SubSeq(nodes[i].kids, 1, j), IsHeading)))

Edited(nodes, k) ==
    /\ content' = Html(content.body, nodes)
    /\ oob' = k
    /\ tocCalls' = 0
    /\ last' = "out_of_band"
    /\ err' = "ok"
    /\ cause' = "ok"
    /\ UNCHANGED <<input, output_format, toc, book, formats>>

out_of_band_id ==
    /\ last = "generate_toc" /\ err = "ok"
    /\ oob = 0
    /\ \E id \in OutOfBandIds, i \in 1..Len(content.nodes) :
          LET n == content.nodes[i]
          IN  \/ /\ IsHeading(n) /\ n.id = NoId
                 /\ Edited([content.nodes EXCEPT ![i].id = id],
                           HeadingPos(content.nodes, i, 0))
              \/ \E j \in 1..Len(n.kids) :
                    /\ IsHeading(n.kids[j]) /\ n.kids[j].id = NoId
                    /\ Edited([content.nodes EXCEPT ![i].kids[j].id = id],
                              HeadingPos(content.nodes, i, j))

Next ==
    \/ read_content
    \/ format_content
    \/ generate_toc
    \/ save
    \/ process_text
    \/ out_of_band_id

\* --------------------------------------------------------- input families
Heads(names, ids, texts) ==
    {Elem(name, id, text) : name \in names, id \in ids, text \in texts}

Divs(kidShapes) == {Div(kids) : kids \in SeqsUpTo(kidShapes, MaxKids)}

\* documents for the table of contents: headings with and without ids, one
\* of them nested
TocShapes ==
    Heads({"h1"}, {NoId, "", "heading_0", "heading_1"}, {"A"})
        \cup Heads({"h3"}, {NoId, "heading_1"}, {"B"})
        \cup {Elem("p", NoId, "x")}
        \cup Divs(Heads({"h6"}, {NoId}, {"C"}))

\* documents for the chapter split: text between the elements, chapter and
\* other headings, a heading nested in a <div>
EpubShapes ==
    {Elem("h1", NoId, "A"), Elem("h2", NoId, "B")}
        \cup Heads({"h3", "p"}, {NoId}, {"x"})
        \cup {TextNode("t")}
        \cup Divs(Heads({"h1"}, {NoId}, {"C"}))

\* documents for the normalisation: every element kind, with and without
\* class tokens of its own
FormatShapes ==
    {Node(name, cls, NoId, "x", <<>>) :
        name \in {"h1", "h6", "p", "ul", "ol", "span"},
        cls \in {<<>>, <<"lead">>}}
        \cup {Node(name, <<"kdp-h1">>, NoId, "x", <<>>) : name \in {"h1", "ol"}}
        \cup Divs(Heads({"p"}, {NoId}, {"y"}))

PipelineShapes ==
    Heads({"h1"}, {NoId}, {"A"}) \cup {Elem("p", NoId, "x"), TextNode("t")}

\* blocks for the heuristic: an upper-case line, a line with the marker at
\* both ends, a plain line with a blank to strip, a blank one, a long
\* upper-case one
PdfBlocks ==
    { <<"A">>, <<Marker, "b", Marker>>, <<Blank, "b">>, <<Blank>>, <<LongRun>> }

\* the blocks of a PDF on two pages, the page break at any place
PdfPages(n) ==
    UNION {{<<SubSeq(bs, 1, k), SubSeq(bs, k + 1, Len(bs))>> : k \in 0..Len(bs)} :
              bs \in SeqsUpTo(PdfBlocks, n)}

PdfInputs(n) ==
    {PdfInput(pages, meta) : pages \in PdfPages(n), meta \in BOOLEAN}
        \cup {BadInput("pdf", "PdfReadError")}

Init       == InitWith(Inputs(PipelineShapes, MaxLen))
InitToc    == InitWith(Inputs(TocShapes, MaxTocLen))
InitEpub   == InitWith(Inputs(EpubShapes, MaxLen))
InitFormat == InitWith(Inputs(FormatShapes, MaxTocLen))
InitPdf    == InitWith(PdfInputs(MaxBlocks))

Spec       == Init /\ [][Next]_vars
SpecToc    == InitToc /\ [][Next]_vars
SpecEpub   == InitEpub /\ [][Next]_vars
SpecFormat == InitFormat /\ [][Next]_vars
SpecPdf    == InitPdf /\ [][Next]_vars

\* ================================================================== claims
LaterStages == {"format_content", "generate_toc", "save"}

Returned(method) == last = method /\ err = "ok"

\* the headings of self.content, in document order
ContentHeadings == Headings(content.nodes)

\* C1: a later stage (format_content, generate_toc, save) called while the
\* content has not been read fails with an OrderError and reads nothing
\* itself.
C1_OrderError ==
    [][(content = None /\ last' \in LaterStages)
            => (err' = "OrderError" /\ content' = None)]_vars

\* the class tokens of every node, in document order
ClassTokens(c) == [i \in 1..Len(Flat(c.nodes)) |-> Flat(c.nodes)[i].cls]

\* C2: format_content on content that format_content has already
\* normalised leaves the class tokens of every node as they are: no token
\* is added a second time.
C2_Idempotent ==
    [][(formats >= 1 /\ formats' = formats + 1)
            => ClassTokens(content') = ClassTokens(content)]_vars

RECURSIVE ConcatChapters(_)
ConcatChapters(chapters) ==
    IF chapters = <<>> THEN <<>>
    ELSE Head(chapters).content.nodes \o ConcatChapters(Tail(chapters))

IsElement(n) == n.name # NoName

SavedEpub == Returned("save") /\ output_format = "epub"

\* the chapters the split produced: none when the book holds the placeholder
SplitOfBook == IF book.chapters = <<Placeholder(content)>> THEN <<>> ELSE book.chapters

C4_SpineAtLeastTwo ==
    (last = "save" /\ output_format = "epub" /\ content # None)
        => /\ err = "ok"
           /\ Len(book.spine) >= 2
           /\ book.spine[1] = NavItem

\* C5: generate_toc returns one entry for each heading of the content, in
\* document order, with the level and the text of that heading; no heading
\* gives the empty list.
C5_TocMatchesHeadings ==
    Returned("generate_toc")
        => /\ Len(toc) = Len(ContentHeadings)
           /\ \A i \in 1..Len(toc) :
                /\ toc[i].level = Level(ContentHeadings[i])
                /\ toc[i].title = ContentHeadings[i].text

C5_Witness ==
    /\ Returned("generate_toc")
    /\ Len(toc) >= 2
    /\ toc[1].level # toc[2].level
    /\ \E i \in 1..Len(content.nodes) :
          \E j \in 1..Len(content.nodes[i].kids) : IsHeading(content.nodes[i].kids[j])

\* C6: the anchor ids of the entries generate_toc returns are pairwise
\* distinct.
C6_DistinctAnchors ==
    Returned("generate_toc")
        => \A i, j \in 1..Len(toc) : i # j => toc[i].id # toc[j].id

\* number of headings before the i-th that have no id
IdlessBefore(hs, i) == Cardinality({j \in 1..(i - 1) : hs[j].id = NoId})

\* C7 (as stated): a heading without id gets heading_<n>, n its 0-based
\* position among the headings without id.
C7_IdlessPosition ==
    Returned("generate_toc")
        => \A i \in 1..Len(ContentHeadings) :
              ContentHeadings[i].id = NoId
                  => toc[i].id = GeneratedId(IdlessBefore(ContentHeadings, i))

\* C7 (amended): a heading without id attribute gets heading_<n>, n its
\* 0-based position among all headings, those with an id included.
C7_GlobalPosition ==
    Returned("generate_toc")
        => /\ Len(toc) = Len(ContentHeadings)
           /\ \A i \in 1..Len(ContentHeadings) :
                ContentHeadings[i].id = NoId => toc[i].id = GeneratedId(i - 1)

C7_Witness ==
    /\ Returned("generate_toc")
    /\ \E i \in 2..Len(ContentHeadings) :
          /\ ContentHeadings[i].id = NoId
          /\ ContentHeadings[i - 1].id \notin {NoId, ""}
          /\ toc[i].id = GeneratedId(i - 1)

\* C8: after generate_toc every heading of self.content carries the anchor
\* id of its entry.
C8_IdsOnContent ==
    Returned("generate_toc")
        => \A i \in 1..Len(ContentHeadings) :
              i <= Len(toc) /\ ContentHeadings[i].id = toc[i].id

\* C9: generate_toc called again right after generate_toc, the content
\* untouched, returns the list it returned before.
C9_StableToc ==
    [][(Returned("generate_toc") /\ tocCalls' = tocCalls + 1) => toc' = toc]_vars

C9_Witness ==
    /\ Returned("generate_toc")
    /\ tocCalls = 2
    /\ \E i, j \in 1..Len(ContentHeadings) :
          /\ ContentHeadings[i].id = NoId
          /\ ContentHeadings[j].id # NoId

\* C10: generate_toc, then an id given out of band to a heading that had
\* none, then generate_toc: every later heading has the anchor id it had in
\* the first list.
C10_NoRenumbering ==
    [][(last = "out_of_band" /\ last' = "generate_toc" /\ err' = "ok")
            => /\ Len(toc') = Len(toc)
               /\ \A j \in (oob + 1)..Len(toc) : toc'[j].id = toc[j].id]_vars

C10_Witness ==
    /\ Returned("generate_toc")
    /\ oob > 0
    /\ \E j \in (oob + 1)..Len(toc) :
          /\ ContentHeadings[j].id = NoId
          /\ toc[j].id = GeneratedId(j - 1)
    /\ ContentHeadings[oob].id \in OutOfBandIds

\* an h1 or h2: the nodes that open a chapter in structured mode
OpensChapter(n) == n.name \in {"h1", "h2"}

\* the element children of the body, in document order
TopElements == SelectSeq(content.nodes, IsElement)

\* one chapter for each top-level h1/h2, one more for what precedes the first
ExpectedChapterCount ==
    Len(SelectSeq(TopElements, OpensChapter))
        + (IF TopElements # <<>> /\ ~OpensChapter(TopElements[1]) THEN 1 ELSE 0)

\* C11: save to epub of structured content completes with one chapter for
\* each top-level h1/h2 (h3..h6 and other nodes open none), one more when
\* content precedes the first of them, and every chapter a heading leads is
\* titled with the text of that heading.
C11_ChapterPerHeading ==
    (last = "save" /\ output_format = "epub" /\ input.fmt = "html" /\ content # None)
        => /\ err = "ok"
           /\ Len(SplitOfBook) = ExpectedChapterCount
           /\ \A k \in 1..Len(SplitOfBook) :
                LET first == SplitOfBook[k].content.nodes[1]
                IN  OpensChapter(first) => SplitOfBook[k].title = first.text

\* the blocks of all pages, in reading order
RECURSIVE Blocks(_)
Blocks(pages) == IF pages = <<>> THEN <<>> ELSE Head(pages) \o Blocks(Tail(pages))

\* the non-empty blocks of the PDF that was read
BlocksRead == SelectSeq(Blocks(input.pages), NonEmpty)

BoundariesRead == SelectSeq(BlocksRead, IsBoundary)

IsParagraph(n) == n.name = "p"

\* the texts of the paragraphs of a chapter
ParagraphTexts(chapter) ==
    LET ps == SelectSeq(chapter.content.nodes, IsParagraph)
    IN  [i \in 1..Len(ps) |-> ps[i].text]

SavedPdfEpub == SavedEpub /\ input.fmt = "pdf"

\* C12: heuristic input whose first non-empty block is a boundary (every
\* run of other blocks follows a boundary) gives exactly one chapter for each
\* boundary block, titled with the heading text of that block; no chapter is
\* titled Chapter <n>.
C12_ChapterPerBoundary ==
    (SavedPdfEpub /\ BlocksRead # <<>> /\ IsBoundary(BlocksRead[1]))
        => /\ Len(book.chapters) = Len(BoundariesRead)
           /\ \A k \in 1..Len(book.chapters) :
                k <= Len(BoundariesRead)
                    /\ book.chapters[k].title = BoundaryHeading(BoundariesRead[k]).text

\* C13: heuristic input with a non-empty block and no boundary block gives
\* exactly one chapter, titled Chapter 1, whose paragraphs are all the
\* non-empty blocks in input order, whatever page each one is on.
C13_SingleChapter ==
    (SavedPdfEpub /\ BlocksRead # <<>> /\ BoundariesRead = <<>>)
        => /\ Len(book.chapters) = 1
           /\ book.chapters[1].title = "Chapter 1"
           /\ ParagraphTexts(book.chapters[1])
                 = [i \in 1..Len(BlocksRead) |-> Text(Strip(BlocksRead[i]))]

C13_Witness ==
    /\ SavedPdfEpub
    /\ BoundariesRead = <<>>
    /\ Len(input.pages) = 2
    /\ input.pages[1] # <<>> /\ input.pages[2] # <<>>
    /\ Len(BlocksRead) >= 2
    /\ Len(BlocksRead) < Len(Blocks(input.pages))
    /\ \E i \in 1..Len(BlocksRead) : StrLen(BlocksRead[i]) >= HeadingThreshold
    /\ Len(ParagraphTexts(book.chapters[1])) = Len(BlocksRead)

\* C14: the spine of an assembled book is the navigation item followed by
\* the chapters in the order the segmentation produced them, which is the
\* order of their nodes in the document.
C14_SpineOrder ==
    SavedEpub
        => /\ Len(book.spine) = Len(book.chapters) + 1
           /\ book.spine[1] = "nav"
           /\ \A k \in 1..Len(book.chapters) :
                book.spine[k + 1] = book.chapters[k].file_name
           /\ ConcatChapters(SplitOfBook) = TopElements

C14_Witness ==
    /\ SavedEpub
    /\ Len(book.chapters) >= 2
    /\ book.chapters[1].title = "B" /\ book.chapters[1].content.nodes[1].name = "h2"
    /\ book.chapters[2].title = "A" /\ book.chapters[2].content.nodes[1].name = "h1"
    /\ Len(book.spine) >= 3

\* C15: the k-th chapter of an assembled book (k from 0) has the file name
\* chapter_<k+1>.xhtml, and no two chapters of the book have the same file
\* name.
C15_DenseFileNames ==
    SavedEpub
        => /\ \A k \in 0..(Len(book.chapters) - 1) :
                book.chapters[k + 1].file_name
                    = "chapter_" \o ToString(k + 1) \o ".xhtml"
           /\ \A i, j \in 1..Len(book.chapters) :
                i # j => book.chapters[i].file_name # book.chapters[j].file_name

C15_Witness ==
    /\ SavedEpub
    /\ Len(book.chapters) = 3
    /\ ~OpensChapter(book.chapters[1].content.nodes[1])
    /\ book.chapters[3].file_name = "chapter_3.xhtml"

\* C16: save to epub of structured content completes; a chapter is titled
\* with the text of its leading h1/h2, and Chapter <n> without one, n the
\* number of chapters before it plus one; content with elements and no
\* heading gives the one chapter Chapter 1 and a spine of length 2.
C16_ChapterTitles ==
    (last = "save" /\ output_format = "epub" /\ input.fmt = "html" /\ content # None)
        => /\ err = "ok"
           /\ \A k \in 1..Len(SplitOfBook) :
                LET first == SplitOfBook[k].content.nodes[1]
                IN  SplitOfBook[k].title
                        = IF OpensChapter(first) THEN first.text
                          ELSE "Chapter " \o ToString(k)
           /\ (TopElements # <<>> /\ ContentHeadings = <<>>)
                => /\ Len(book.chapters) = 1
                   /\ book.chapters[1].title = "Chapter 1"
                   /\ Len(book.spine) = 2

\* C17: when the split of an assembled book gives no chapter (the body has
\* no element), the book has exactly one chapter, the placeholder in
\* chapter_1.xhtml holding the raw content, and the spine is navigation and
\* that chapter; when the split gives a chapter, the book has the chapters
\* of the split and no placeholder.
C17_PlaceholderOnlyWhenEmpty ==
    SavedEpub
        => IF TopElements = <<>>
           THEN /\ Len(book.chapters) = 1
                /\ book.chapters[1].file_name = "chapter_1.xhtml"
                /\ book.chapters[1].content = content
                /\ book.spine = <<"nav", "chapter_1.xhtml">>
           ELSE /\ Len(book.chapters) = ExpectedChapterCount
                /\ \A k \in 1..Len(book.chapters) :
                      /\ book.chapters[k].content # content
                      /\ book.chapters[k].title # "Content"

C17_Witness ==
    /\ SavedEpub
    /\ TopElements = <<>>
    /\ content.nodes # <<>>
    /\ book.chapters = <<[title |-> "Content", file_name |-> "chapter_1.xhtml",
                          content |-> content]>>

\* the class token C18 requires on a node, "" for a node it requires none on
RequiredToken(n) ==
    IF n.name \in {"h1", "h2", "h3", "h4", "h5", "h6"} THEN "kdp-" \o n.name
    ELSE IF n.name = "p" THEN "kdp-paragraph"
    ELSE IF n.name \in {"ul", "ol"} THEN "kdp-list"
    ELSE ""

HasToken(n, token) == \E i \in 1..Len(n.cls) : n.cls[i] = token

\* C18: after format_content every h<i> has the class token kdp-h<i>, every
\* p has kdp-paragraph, every ul and ol has kdp-list, and every node has
\* every class token it had before the call.
C18_TokensAdded ==
    [][(last' = "format_content" /\ err' = "ok")
            => LET before == Flat(Loaded.nodes)
                   after  == Flat(content'.nodes)
               IN  /\ Len(after) = Len(before)
                   /\ \A i \in 1..Len(after) :
                        /\ after[i].name = before[i].name
                        /\ RequiredToken(after[i]) # ""
                              => HasToken(after[i], RequiredToken(after[i]))
                        /\ \A j \in 1..Len(before[i].cls) :
                              HasToken(after[i], before[i].cls[j])]_vars

C18_Witness ==
    /\ Returned("format_content")
    /\ formats = 1
    /\ \E i, j \in 1..Len(Flat(content.nodes)) :
          /\ Flat(content.nodes)[i].name = "h6"
          /\ Flat(content.nodes)[i].cls = <<"lead", "kdp-h6">>
          /\ Flat(content.nodes)[j].name = "ol"
          /\ Flat(content.nodes)[j].cls = <<"kdp-h1", "kdp-list">>

\* C19: once format_content has normalised the content, no call of
\* read_content, format_content, generate_toc or save takes the processor
\* back: the content is not replaced by content read again and is not
\* normalised a second time.
C19_OneWay ==
    [][(formats >= 1
            /\ last' \in {"read_content", "format_content", "generate_toc", "save"})
            => formats' = formats]_vars

\* C20: a failure that reaches the caller has the type of the failure
\* raised inside the stage: it is not replaced by another error kind or by
\* a process exit.
C20_SameFailure == err # "ok" => err = cause

Unclassed(n) == [n EXCEPT !.cls = <<>>]

\* the tree with the class attribute taken off every node
WithoutClasses(nodes) ==
    [i \in 1..Len(nodes) |->
        LET n == nodes[i]
        IN  [Unclassed(n) EXCEPT !.kids = [j \in 1..Len(n.kids) |-> Unclassed(n.kids[j])]]]

\* C21: format_content changes nothing but the class attributes of
\* heading, paragraph and list elements: the tree is the same but for class
\* attributes (no node added, removed or reordered, names, ids and text as
\* before), every other node keeps its class attribute, and empty content is
\* left as it is.
C21_OnlyClassesChange ==
    [][(last' = "format_content" /\ err' = "ok")
            => LET before == Flat(Loaded.nodes)
                   after  == Flat(content'.nodes)
               IN  /\ content'.kind = Loaded.kind
                   /\ content'.body = Loaded.body
                   /\ WithoutClasses(content'.nodes) = WithoutClasses(Loaded.nodes)
                   /\ \A i \in 1..Len(before) :
                        RequiredToken(before[i]) = "" => after[i].cls = before[i].cls
                   /\ Loaded.nodes = <<>> => content' = Loaded]_vars

C21_Witness ==
    /\ Returned("format_content")
    /\ formats = 1
    /\ ~content.body
    /\ Len(content.nodes) = 2
    /\ content.nodes[1].name = "span" /\ content.nodes[1].cls = <<"lead">>
    /\ content.nodes[2].name = "div" /\ content.nodes[2].cls = <<>>
    /\ Len(content.nodes[2].kids) = 1
    /\ content.nodes[2].kids[1].cls = <<"kdp-paragraph">>
    /\ content.nodes[2].kids[1].text = "y"

\* read_content has just read a PDF: self.content is what _read_pdf stored
PdfRead == last = "read_content" /\ input.fmt = "pdf" /\ input.ok

\* an auto-numbered heading; no block of the inputs has such a text
IsNumbered(n) ==
    n.name = "h1" /\ \E k \in 1..(MaxBlocks + 1) : n.text = "Chapter " \o ToString(k)

IsBlockHeading(n) == n.name = "h1" /\ ~IsNumbered(n)

ElementsRead == SelectSeq(content.nodes, IsElement)

\* the texts of the headings emitted for blocks, and of the paragraphs
BlockHeadingTexts ==
    LET hs == SelectSeq(ElementsRead, IsBlockHeading)
    IN  [i \in 1..Len(hs) |-> hs[i].text]

ParagraphTextsRead ==
    LET ps == SelectSeq(ElementsRead, IsParagraph)
    IN  [i \in 1..Len(ps) |-> ps[i].text]

\* the boundary rule as C22 states it
StatedBoundary(para) ==
    (StrLen(para) < 100 /\ IsUpper(para)) \/ (para # <<>> /\ para[1] = "#")

StatedParagraph(para) == ~StatedBoundary(para)

\* the block without its leading marker, otherwise unchanged
LeadingMarkerRemoved(para) == IF para # <<>> /\ para[1] = "#" THEN Tail(para) ELSE para

\* every element read is a heading or a paragraph, the headings emitted for
\* blocks are those of the blocks the stated rule makes boundaries, and the
\* paragraphs are the other non-empty blocks, in order
BlocksClassified ==
    /\ \A i \in 1..Len(ElementsRead) : ElementsRead[i].name \in {"h1", "p"}
    /\ Len(BlockHeadingTexts) = Len(SelectSeq(BlocksRead, StatedBoundary))
    /\ LET ps == SelectSeq(BlocksRead, StatedParagraph)
       IN  ParagraphTextsRead = [i \in 1..Len(ps) |-> Text(Strip(ps[i]))]

\* C22 (as stated): a non-empty block is a boundary exactly when it is
\* shorter than 100 characters and upper-case, or begins with '#'; its title
\* is its text with the leading '#' removed and otherwise unchanged; the
\* other non-empty blocks are paragraphs and empty blocks give nothing.
C22_LeadingMarkerOnly ==
    PdfRead
        => /\ BlocksClassified
           /\ LET bs == SelectSeq(BlocksRead, StatedBoundary)
              IN  BlockHeadingTexts = [i \in 1..Len(bs) |-> Text(LeadingMarkerRemoved(bs[i]))]

\* C22 (amended): the same rule, and the title of a boundary block is its
\* text with every '#' at its start and at its end removed, and then the
\* whitespace at both ends.
C22_MarkersStripped ==
    PdfRead
        => /\ BlocksClassified
           /\ LET bs == SelectSeq(BlocksRead, StatedBoundary)
              IN  BlockHeadingTexts
                    = [i \in 1..Len(bs) |-> Text(StripChar(StripChar(bs[i], "#"), " "))]

C22_Witness ==
    /\ PdfRead /\ err = "ok"
    /\ Blocks(input.pages) = << <<"#", "b", "#">>, <<" ">>, <<LongRun>> >>
    /\ BlockHeadingTexts = <<"b">>
    /\ ParagraphTextsRead = <<LongRun>>

\* the runs of paragraph blocks: a run begins at a paragraph block that is
\* the first non-empty block or follows a boundary block
RunsRead ==
    Cardinality({i \in 1..Len(BlocksRead) :
        /\ StatedParagraph(BlocksRead[i])
        /\ i = 1 \/ StatedBoundary(BlocksRead[i - 1])})

NumberedTextsRead ==
    LET hs == SelectSeq(ElementsRead, IsNumbered)
    IN  [i \in 1..Len(hs) |-> hs[i].text]

IsOfBlock(n) == ~IsNumbered(n)

\* C23: the auto-numbered headings are Chapter 1 .. Chapter k in order, one
\* for each non-empty run of paragraphs; each stands right before the
\* paragraphs of its run, which a boundary or the end of input closes (the
\* heading of a boundary comes after the run it closes and has no
\* paragraph right after it); without the numbered headings the elements
\* are the non-empty blocks in input order, every paragraph block once.
C23_AutoNumbering ==
    PdfRead
        => /\ NumberedTextsRead = [i \in 1..RunsRead |-> "Chapter " \o ToString(i)]
           /\ \A i \in 1..Len(ElementsRead) :
                /\ IsNumbered(ElementsRead[i])
                      => i < Len(ElementsRead) /\ ElementsRead[i + 1].name = "p"
                /\ ElementsRead[i].name = "p"
                      => i > 1 /\ (ElementsRead[i - 1].name = "p"
                                    \/ IsNumbered(ElementsRead[i - 1]))
           /\ LET es == SelectSeq(ElementsRead, IsOfBlock)
              IN  /\ Len(es) = Len(BlocksRead)
                  /\ \A i \in 1..Len(es) :
                        IF StatedBoundary(BlocksRead[i])
                        THEN es[i].name = "h1"
                        ELSE es[i].name = "p" /\ es[i].text = Text(Strip(BlocksRead[i]))

C23_Witness ==
    /\ PdfRead /\ err = "ok"
    /\ input.pages = << << <<" ", "b">> >>, << <<"A">>, <<LongRun>> >> >>
    /\ NumberedTextsRead = <<"Chapter 1", "Chapter 2">>
    /\ Len(ElementsRead) = 5
    /\ ElementsRead[3].text = "A"

\* a chapter that holds a node, and an h1 or h2 as its first node at most
WellFormedChapter(nodes) ==
    /\ nodes # <<>>
    /\ \A i \in 2..Len(nodes) : nodes[i].name \notin {"h1", "h2"}

\* C24: at every point of the walk of _save_epub over the top-level
\* children, and after its final flush, every chapter made so far holds at
\* least one node and has an h1 or h2 as its first node at most; the open
\* chapter has an h1 or h2 as its first node at most.
C24_WalkInvariant ==
    SavedEpub
        => /\ \A k \in 0..Len(content.nodes) :
                LET st == SplitWalk(content.nodes)[k]
                IN  /\ \A c \in 1..Len(st.chapters) :
                          WellFormedChapter(st.chapters[c].content.nodes)
                    /\ st.current_chapter # <<>>
                          => WellFormedChapter(st.current_chapter)
           /\ \A c \in 1..Len(SplitOfBook) :
                WellFormedChapter(SplitOfBook[c].content.nodes)

C24_Witness ==
    /\ SavedEpub
    /\ Len(content.nodes) = 3
    /\ content.nodes[1].name = "p"
    /\ content.nodes[2].name = "h1"
    /\ content.nodes[3].name = "h2"
    /\ Len(SplitWalk(content.nodes)[1].chapters) = 0
    /\ Len(SplitWalk(content.nodes)[2].chapters) = 1
    /\ Len(SplitWalk(content.nodes)[3].chapters) = 2
    /\ SplitWalk(content.nodes)[3].current_chapter = <<content.nodes[3]>>
    /\ Len(book.chapters) = 3

====
